---- MODULE Spec2Model ----
(***************************************************************************)
(* Model of send_mails.py (job_mailer_gsheets): the e-mail validator, the  *)
(* resume selector, the sheet store and the orchestrator                   *)
(* process_sheet_and_send with its retry loop.                             *)
(*                                                                         *)
(* Python strings are sequences of one-character strings, so that strip(), *)
(* lower(), upper(), replace(), split() and splitext() are computed and    *)
(* not assumed.  Python's None is the distinguished value None.            *)
(***************************************************************************)
EXTENDS Integers, Sequences, FiniteSets, TLC

VARIABLES
    sheet,           \* the remote sheet: [hasStatus, rows]
    fs,              \* the resume folder on disk: [isdir, listing]
    smtp_conf,       \* [username, password]
    max_retries,     \* CONFIG["max_retries"]
    pc,              \* position of the running function
    exc,             \* the exception that left the run ("" when none)
    df,              \* the in-memory Table (sequence of rows)
    invalid_rows,    \* indices collected by the validation loop
    idx,             \* loop index of the main loop (1-based)
    processed_keys,  \* dedup keys seen in this run
    attempt,         \* send loop counter
    sent,            \* send loop flag
    loaded,          \* observer: the rows the main loop works on, as they were read
    events,          \* observer: attempt/sleep events of the last send loop
    ev_row,          \* observer: the row that send loop was for (0: none)
    touched,         \* observer: rows for which select/compose/send ran
    wrote,           \* observer: the last step ended with a successful write
    write_failed,    \* observer: some write-back of this run failed
    call,            \* arguments of the pure function under check
    ret,             \* its result
    hist             \* observer: [run, delivered, sheet_ids, df_ids], the
                     \* identity of every row and the messages sent for it

vars == <<sheet, fs, smtp_conf, max_retries, pc, exc, df, invalid_rows, idx,
          processed_keys, attempt, sent, loaded, events, ev_row,
          touched, wrote, write_failed, call, ret, hist>>

orch_vars == <<sheet, smtp_conf, max_retries, exc, df, invalid_rows, idx,
               processed_keys, attempt, sent, loaded, events, ev_row,
               touched, wrote, write_failed, hist>>

---------------------------------------------------------------------------
(* Bounds *)
MaxRows == 2
MaxRetriesCap == 3
MaxAddrLen == 3
MaxFiles == 2
MaxRuns == 2

---------------------------------------------------------------------------
(* Python values and string methods *)

None == <<"<None>">>
NonStr == <<"<int>">>
EmptyStr == <<>>

UpperCase == <<"A","B","C","D","E","F","G","H","I","J","K","L","M",
               "N","O","P","Q","R","S","T","U","V","W","X","Y","Z">>
LowerCase == <<"a","b","c","d","e","f","g","h","i","j","k","l","m",
               "n","o","p","q","r","s","t","u","v","w","x","y","z">>

\* the case mappings of the letters, as tables
ToLower ==
    [c \in {UpperCase[k] : k \in 1..Len(UpperCase)} |->
        LowerCase[CHOOSE k \in 1..Len(UpperCase) : UpperCase[k] = c]]
ToUpper ==
    [c \in {LowerCase[k] : k \in 1..Len(LowerCase)} |->
        UpperCase[CHOOSE k \in 1..Len(LowerCase) : LowerCase[k] = c]]

lowerChar(c) == IF c \in DOMAIN ToLower THEN ToLower[c] ELSE c

upperChar(c) == IF c \in DOMAIN ToUpper THEN ToUpper[c] ELSE c

lower(s) == [k \in 1..Len(s) |-> lowerChar(s[k])]
upper(s) == [k \in 1..Len(s) |-> upperChar(s[k])]

RECURSIVE lstrip(_)
lstrip(s) == IF s # <<>> /\ Head(s) = " " THEN lstrip(Tail(s)) ELSE s

RECURSIVE rstrip(_)
rstrip(s) ==
    IF s # <<>> /\ s[Len(s)] = " " THEN rstrip(SubSeq(s, 1, Len(s) - 1)) ELSE s

strip(s) == rstrip(lstrip(s))

\* str(x): a string is itself, None prints as "None"
S_None == <<"N", "o", "n", "e">>
str(x) == IF x = None THEN S_None ELSE x

replace(s, a, b) == [k \in 1..Len(s) |-> IF s[k] = a THEN b ELSE s[k]]

\* s.split(): the maximal runs of non-blank characters
RECURSIVE split(_)
split(s) ==
    LET t == lstrip(s)
        blanks == {k \in 1..Len(t) : t[k] = " "}
        cut == IF blanks = {} THEN Len(t) + 1
               ELSE CHOOSE k \in blanks : \A m \in blanks : k <= m
    IN  IF t = <<>> THEN <<>>
        ELSE <<SubSeq(t, 1, cut - 1)>> \o split(SubSeq(t, cut, Len(t)))

\* " ".join(words)
RECURSIVE join(_)
join(words) ==
    IF words = <<>> THEN <<>>
    ELSE IF Len(words) = 1 THEN words[1]
    ELSE words[1] \o <<" ">> \o join(Tail(words))

\* os.path.splitext(fname)[0]
splitext(fname) ==
    LET dots == {k \in 1..Len(fname) : fname[k] = "."}
        last == CHOOSE k \in dots : \A m \in dots : m <= k
    IN  IF dots = {} \/ (\A k \in 1..(last - 1) : fname[k] = ".")
        THEN fname
        ELSE SubSeq(fname, 1, last - 1)

\* os.path.join(folder, fname)
path_join(folder, fname) == folder \o <<"/">> \o fname

normalize_key(s) == lower(strip(IF s = None THEN EmptyStr ELSE s))

---------------------------------------------------------------------------
(* Status literals *)
S_SENT == <<"S", "E", "N", "T">>
S_PENDING == <<"P", "E", "N", "D", "I", "N", "G">>
S_TO_SEND == <<"T", "O", "_", "S", "E", "N", "D">>
S_FAILED == <<"F", "A", "I", "L", "E", "D">>
S_SKIPPED_DUPLICATE == <<"S", "K", "I", "P", "P", "E", "D", "_", "D", "U", "P", "L", "I", "C", "A", "T", "E">>
S_SKIPPED_NO_RESUME == <<"S", "K", "I", "P", "P", "E", "D", "_", "N", "O", "_", "R", "E", "S", "U", "M", "E">>
S_FAILED_BUILD_MESSAGE == <<"F", "A", "I", "L", "E", "D", "_", "B", "U", "I", "L", "D", "_", "M", "E", "S", "S", "A", "G", "E">>

---------------------------------------------------------------------------
(* Email validator *)

\* The syntax the email-validator library accepts, reduced to: exactly one
\* "@", a non-empty local part and domain, no blank.
SyntaxValid(address) ==
    /\ address \notin {None, NonStr}
    /\ Cardinality({k \in 1..Len(address) : address[k] = "@"}) = 1
    /\ \A k \in 1..Len(address) : address[k] # " "
    /\ address[1] # "@"
    /\ address[Len(address)] # "@"

\* The library's normalized form: the domain is lower-cased
NormalizedEmail(address) ==
    LET at == CHOOSE k \in 1..Len(address) : address[k] = "@"
    IN  SubSeq(address, 1, at) \o lower(SubSeq(address, at + 1, Len(address)))

\* What the deliverability lookup of one call does
Oracles == {"deliverable", "undeliverable", "error"}

\* validate_email(address, check_deliverability=...): the syntax is checked
\* first; EmailUndeliverableError is a subclass of EmailNotValidError.
validate_email(address, check_deliverability, oracle) ==
    IF ~SyntaxValid(address)
    THEN [raised |-> "EmailNotValidError", email |-> None]
    ELSE IF check_deliverability /\ oracle = "undeliverable"
    THEN [raised |-> "EmailNotValidError", email |-> None]
    ELSE IF check_deliverability /\ oracle = "error"
    THEN [raised |-> "Exception", email |-> None]
    ELSE [raised |-> "", email |-> NormalizedEmail(address)]

validate_email_address(address, oracle) ==
    IF address = None \/ address = EmptyStr \/ address = NonStr
          \/ strip(address) = EmptyStr
    THEN <<FALSE, None>>
    ELSE LET v == validate_email(address, TRUE, oracle)
         IN  IF v.raised = "" THEN <<TRUE, v.email>>
             ELSE IF v.raised = "EmailNotValidError" THEN <<FALSE, None>>
             ELSE LET v2 == validate_email(address, FALSE, oracle)
                  IN  IF v2.raised = "" THEN <<TRUE, v2.email>>
                      ELSE <<FALSE, None>>

---------------------------------------------------------------------------
(* Attachment selector *)

K_backend == <<"b", "a", "c", "k", "e", "n", "d", " ", "d", "e", "v", "e", "l", "o", "p", "e", "r">>
K_frontend == <<"f", "r", "o", "n", "t", "e", "n", "d", " ", "d", "e", "v", "e", "l", "o", "p", "e", "r">>
K_mern == <<"m", "e", "r", "n", " ", "s", "t", "a", "c", "k", " ", "d", "e", "v", "e", "l", "o", "p", "e", "r">>
F_backend == <<"S", "a", "h", "i", "l", "_", "B", "h", "a", "n", "u", "s", "h", "a", "l", "i", "-", "M", ".", "p", "d", "f">>
F_frontend == <<"S", "a", "h", "i", "l", "_", "b", "h", "a", "n", "u", "s", "h", "a", "l", "i", "_", "R", "e", "s", "u", "m", "e", ".", "p", "d", "f">>
F_mern == <<"f", "u", "l", "l", "s", "t", "a", "c", "k", "_", "r", "e", "s", "u", "m", "e", ".", "p", "d", "f">>

resumes_folder == <<"r", "e", "s", "u", "m", "e", "s">>
default_resume == path_join(resumes_folder, F_backend)

CONFIG_resume_map ==
    [k \in {K_backend, K_frontend, K_mern} |->
        IF k = K_backend THEN path_join(resumes_folder, F_backend)
        ELSE IF k = K_frontend THEN path_join(resumes_folder, F_frontend)
        ELSE path_join(resumes_folder, F_mern)]

RESUME_MAP ==
    [k \in {normalize_key(c) : c \in DOMAIN CONFIG_resume_map} |->
        CONFIG_resume_map[CHOOSE c \in DOMAIN CONFIG_resume_map : normalize_key(c) = k]]

\* os.path.isdir / os.path.isfile / os.listdir over the modelled disk, which
\* holds the resume folder only
isdir(fsys, folder) == folder = resumes_folder /\ fsys.isdir

isfile(fsys, p) ==
    /\ fsys.isdir
    /\ \E k \in 1..Len(fsys.listing) :
          /\ fsys.listing[k].isfile
          /\ path_join(resumes_folder, fsys.listing[k].name) = p

listdir(fsys, folder) == [k \in 1..Len(fsys.listing) |-> fsys.listing[k].name]

\* the test of the heuristic scan for one directory entry
heuristic_match(key, fname) ==
    LET name == lower(splitext(fname))
        words == split(replace(name, "_", " "))
        joined == join(words)
    IN  key = joined \/ key = name

\* select_resume trusting the mapping without looking at the disk
select_resume_unchecked(job_role, resume_folder, default, fsys) ==
    LET key == normalize_key(job_role)
        names == listdir(fsys, resume_folder)
        hits == {k \in 1..Len(names) :
                    /\ isfile(fsys, path_join(resume_folder, names[k]))
                    /\ heuristic_match(key, names[k])}
    IN  IF key \in DOMAIN RESUME_MAP
        THEN RESUME_MAP[key]
        ELSE IF isdir(fsys, resume_folder) /\ hits # {}
        THEN path_join(resume_folder,
                       names[CHOOSE k \in hits : \A m \in hits : k <= m])
        ELSE IF default \notin {None, EmptyStr} /\ isfile(fsys, default)
        THEN default
        ELSE None

select_resume(job_role, resume_folder, default, fsys) ==
    LET key == normalize_key(job_role)
        names == listdir(fsys, resume_folder)
        hits == {k \in 1..Len(names) :
                    /\ isfile(fsys, path_join(resume_folder, names[k]))
                    /\ heuristic_match(key, names[k])}
    IN  IF key \in DOMAIN RESUME_MAP /\ isfile(fsys, RESUME_MAP[key])
        THEN RESUME_MAP[key]
        ELSE IF isdir(fsys, resume_folder) /\ hits # {}
        THEN path_join(resume_folder,
                       names[CHOOSE k \in hits : \A m \in hits : k <= m])
        ELSE IF default \notin {None, EmptyStr} /\ isfile(fsys, default)
        THEN default
        ELSE None

---------------------------------------------------------------------------
(* Values the orchestrator's variables hold while a pure function is checked *)
IdleSheet == [hasStatus |-> FALSE, rows |-> <<>>]
IdleFs == [isdir |-> FALSE, listing |-> <<>>]
IdleConf == [username |-> "", password |-> ""]
IdleCall == [fn |-> ""]
IdleHist == [run |-> 1, delivered |-> <<>>, sheet_ids |-> <<>>, df_ids |-> <<>>]

OrchIdle ==
    /\ sheet = IdleSheet
    /\ smtp_conf = IdleConf
    /\ max_retries = 0
    /\ exc = ""
    /\ df = <<>>
    /\ invalid_rows = {}
    /\ idx = 1
    /\ processed_keys = {}
    /\ attempt = 0
    /\ sent = FALSE
    /\ loaded = <<>>
    /\ events = <<>>
    /\ ev_row = 0
    /\ touched = {}
    /\ wrote = FALSE
    /\ write_failed = FALSE
    /\ hist = IdleHist

\* all sequences over S of length at most n
RECURSIVE SeqsUpTo(_, _)
SeqsUpTo(S, n) ==
    IF n = 0 THEN {<<>>}
    ELSE LET shorter == SeqsUpTo(S, n - 1)
         IN  shorter \cup {Append(s, x) : s \in shorter, x \in S}

---------------------------------------------------------------------------
(* validate_email_address applied to bounded inputs *)
AddrChars == {"a", "B", "@", " "}
Addresses == SeqsUpTo(AddrChars, MaxAddrLen) \cup {None, NonStr}

ValidateInit ==
    /\ OrchIdle
    /\ fs = IdleFs
    /\ pc = "v_call"
    /\ call \in [fn : {"validate_email_address"}, address : Addresses, oracle : Oracles]
    /\ ret = None

ValidateCall ==
    /\ pc = "v_call"
    /\ ret' = validate_email_address(call.address, call.oracle)
    /\ pc' = "v_done"
    /\ UNCHANGED <<orch_vars, fs, call>>

ValidateNext == ValidateCall

SpecValidate == ValidateInit /\ [][ValidateNext]_vars

---------------------------------------------------------------------------
(* select_resume applied to bounded inputs *)
Role_backend == <<" ", "B", "a", "c", "k", "e", "n", "d", " ", "D", "e", "v", "e", "l", "o", "p", "e", "r", " ">>
Role_frontend == <<"F", "r", "o", "n", "t", "e", "n", "d", " ", "D", "e", "v", "e", "l", "o", "p", "e", "r">>
Role_data1 == <<"d", "a", "t", "a", " ", "e", "n", "g", "i", "n", "e", "e", "r">>
Role_data2 == <<"d", "a", "t", "a", " ", " ", "e", "n", "g", "i", "n", "e", "e", "r">>
Role_data3 == <<"d", "a", "t", "a", "_", "e", "n", "g", "i", "n", "e", "e", "r">>
Role_qa == <<" ", "Q", "A", " ">>
Role_devops == <<"d", "e", "v", "o", "p", "s">>

File_data1 == <<"d", "a", "t", "a", "_", "e", "n", "g", "i", "n", "e", "e", "r", ".", "p", "d", "f">>
File_data2 == <<"D", "a", "t", "a", "_", "_", "E", "n", "g", "i", "n", "e", "e", "r", ".", "P", "D", "F">>
File_qa == <<"q", "a", ".", "t", "x", "t">>
File_qa2 == <<"_", "q", "a", "_", ".", "v", "2", ".", "p", "d", "f">>
File_backend2 == <<"B", "a", "c", "k", "e", "n", "d", "_", "D", "e", "v", "e", "l", "o", "p", "e", "r", ".", "d", "o", "c", "x">>

Roles == {Role_backend, Role_frontend, Role_data1, Role_data2, Role_data3,
          Role_qa, Role_devops, EmptyStr}
FileNames == {F_backend, F_frontend, File_data1, File_data2, File_qa, File_qa2,
              File_backend2}
DirEntries == [name : FileNames, isfile : BOOLEAN]

\* listings name each entry once
Listings(n) ==
    {l \in SeqsUpTo(DirEntries, n) :
        \A a, b \in 1..Len(l) : a # b => l[a].name # l[b].name}

FsStates(n) == {IdleFs} \cup [isdir : {TRUE}, listing : Listings(n)]

ResumeInit ==
    /\ OrchIdle
    /\ pc = "r_call"
    /\ fs \in FsStates(MaxFiles)
    /\ call \in [fn : {"select_resume"}, job_role : Roles,
                 default : {None, EmptyStr, default_resume}]
    /\ ret = None

ResumeCall ==
    /\ pc = "r_call"
    /\ ret' = select_resume(call.job_role, resumes_folder, call.default, fs)
    /\ pc' = "r_done"
    /\ UNCHANGED <<orch_vars, fs, call>>

ResumeNext == ResumeCall

SpecResume == ResumeInit /\ [][ResumeNext]_vars

---------------------------------------------------------------------------
(* Sheet store *)

Header == <<"JobRole", "CompanyName", "Email", "Status">>

Row(job, company, email, status) ==
    [JobRole |-> job, CompanyName |-> company, Email |-> email, Status |-> status]

\* values().get(): the sheet's rows; a trailing empty cell is left out of its
\* row, so an empty Status cell (the last column) is missing from the row
api_get(sh) ==
    [k \in 1..Len(sh.rows) |->
        IF sh.hasStatus /\ sh.rows[k].Status # EmptyStr
        THEN <<sh.rows[k].JobRole, sh.rows[k].CompanyName, sh.rows[k].Email,
               sh.rows[k].Status>>
        ELSE <<sh.rows[k].JobRole, sh.rows[k].CompanyName, sh.rows[k].Email>>]

\* pd.DataFrame(rows, columns=header) refuses rows that are all shorter than
\* the header
read_raises(sh) ==
    /\ sh.rows # <<>>
    /\ sh.hasStatus
    /\ \A k \in 1..Len(sh.rows) : Len(api_get(sh)[k]) < Len(Header)

\* read_sheet_to_dataframe: short rows are padded with None; a sheet without
\* a Status column gets one holding ""
read_sheet_to_dataframe(sh) ==
    LET values == api_get(sh)
    IN  [k \in 1..Len(values) |->
            Row(values[k][1], values[k][2], values[k][3],
                IF ~sh.hasStatus THEN EmptyStr
                ELSE IF Len(values[k]) < Len(Header) THEN None
                ELSE values[k][4])]

\* df.fillna("").astype(str)
fillna(row) == [row EXCEPT !.Status = IF @ = None THEN EmptyStr ELSE @]

\* values().update(range=sheet, body=header + rows): the cells of the body are
\* set; cells of the sheet below the body keep what they held
write_dataframe_to_sheet(sh, table) ==
    LET n == IF Len(table) > Len(sh.rows) THEN Len(table) ELSE Len(sh.rows)
    IN  [hasStatus |-> TRUE,
         rows |-> [k \in 1..n |->
                      IF k <= Len(table) THEN fillna(table[k]) ELSE sh.rows[k]]]

---------------------------------------------------------------------------
(* Mail transport *)

Transports == {"accepted", "smtp_error"}

\* send_email: the exception it raises ("" when the message was sent)
send_email(conf, transport) ==
    IF conf.username = "" THEN "RuntimeError"
    ELSE IF conf.password = "" THEN "RuntimeError"
    ELSE IF transport = "smtp_error" THEN "SMTPException"
    ELSE ""

---------------------------------------------------------------------------
(* Orchestrator: process_sheet_and_send *)

Job_fe1 == <<"F", "r", "o", "n", "t", "e", "n", "d", " ", "D", "e", "v", "e", "l", "o", "p", "e", "r">>
Job_fe2 == <<"f", "r", "o", "n", "t", "e", "n", "d", " ", "d", "e", "v", "e", "l", "o", "p", "e", "r", " ">>
Job_qa == <<" ", "Q", "A", " ">>
Co_1 == <<"a", "c", "m", "e">>
Co_2 == <<"A", "c", "m", "e", " ">>
Em_a1 == <<"a", "@", "x">>
Em_a2 == <<" ", "A", "@", "X">>
Em_b == <<"b", "@", "x">>
Em_bad == <<"a", "x">>
St_pending == <<"p", "e", "n", "d", "i", "n", "g">>
St_sent == <<" ", "s", "e", "n", "t">>
St_hold == <<"H", "O", "L", "D">>

SheetRows ==
    { Row(Job_fe1, Co_1, Em_a1, EmptyStr),
      Row(Job_fe2, Co_2, Em_a2, St_pending),
      Row(Job_fe1, Co_1, Em_a1, S_TO_SEND),
      Row(Job_qa, Co_1, Em_a1, S_PENDING),
      Row(Job_fe1, Co_1, Em_a1, St_sent),
      Row(Job_fe1, Co_1, Em_b, St_hold),
      Row(Job_fe1, Co_1, Em_bad, S_SENT) }

\* a sheet that has no Status column yet holds no Status cell
Sheets ==
    {sh \in [hasStatus : BOOLEAN, rows : SeqsUpTo(SheetRows, MaxRows)] :
        sh.hasStatus \/ \A k \in 1..Len(sh.rows) : sh.rows[k].Status = EmptyStr}

FsFrontendOnly == [isdir |-> TRUE, listing |-> <<[name |-> F_frontend, isfile |-> TRUE]>>]
FsDefaultOnly == [isdir |-> TRUE, listing |-> <<[name |-> F_backend, isfile |-> TRUE]>>]

GoodConf == [username |-> "user", password |-> "secret"]
BadConfs == { [username |-> "", password |-> "secret"],
              [username |-> "user", password |-> ""] }

\* the SMTP credentials and CONFIG["max_retries"] of a run
RunConfigs ==
    ({GoodConf} \X (0..MaxRetriesCap)) \cup (BadConfs \X {MaxRetriesCap})

Init ==
    /\ sheet \in Sheets
    /\ fs \in {FsFrontendOnly, FsDefaultOnly}
    /\ \E c \in RunConfigs : smtp_conf = c[1] /\ max_retries = c[2]
    /\ pc = "read"
    /\ exc = ""
    /\ df = <<>>
    /\ invalid_rows = {}
    /\ idx = 1
    /\ processed_keys = {}
    /\ attempt = 0
    /\ sent = FALSE
    /\ loaded = <<>>
    /\ events = <<>>
    /\ ev_row = 0
    /\ touched = {}
    /\ wrote = FALSE
    /\ write_failed = FALSE
    /\ call = IdleCall
    /\ ret = None
    /\ hist = [run |-> 1,
               delivered |-> [k \in 1..Len(sheet.rows) |-> 0],
               sheet_ids |-> [k \in 1..Len(sheet.rows) |-> k],
               df_ids |-> <<>>]

\* the identities of the sheet's rows after a write of the rows named by ids:
\* the written rows, then whatever the sheet held below them
written_ids(old, ids) ==
    LET n == IF Len(ids) > Len(old) THEN Len(ids) ELSE Len(old)
    IN  [k \in 1..n |-> IF k <= Len(ids) THEN ids[k] ELSE old[k]]

loop_obs == <<loaded, events, ev_row, touched>>

\* lines 468-484: load the sheet; an empty Table ends the run
ReadSheet ==
    /\ pc = "read"
    /\ IF read_raises(sheet)
       THEN /\ pc' = "raised"
            /\ exc' = "ValueError"
            /\ df' = df
       ELSE /\ df' = read_sheet_to_dataframe(sheet)
            /\ pc' = IF df' = <<>> THEN "done" ELSE "validate"
            /\ exc' = exc
    /\ wrote' = FALSE
    /\ hist' = [hist EXCEPT !.df_ids = IF read_raises(sheet) THEN <<>>
                                       ELSE hist.sheet_ids]
    /\ UNCHANGED <<sheet, fs, smtp_conf, max_retries, invalid_rows, idx,
                   processed_keys, attempt, sent, loop_obs, write_failed,
                   call, ret>>

\* the rows of table whose index is not in drop, in order (df.drop + reset_index)
RECURSIVE drop(_, _, _)
drop(table, dropped, k) ==
    IF k > Len(table) THEN <<>>
    ELSE (IF k \in dropped THEN <<>> ELSE <<table[k]>>) \o drop(table, dropped, k + 1)

\* lines 487-520: validate every row, remove the invalid ones and write the
\* cleaned Table back
ValidateRows ==
    /\ pc = "validate"
    /\ \E oracle \in [1..Len(df) -> Oracles] :
         LET res == [k \in 1..Len(df) |->
                        validate_email_address(strip(str(df[k].Email)), oracle[k])]
             bad == {k \in 1..Len(df) : ~res[k][1]}
             norm == [k \in 1..Len(df) |->
                        IF res[k][1] THEN [df[k] EXCEPT !.Email = res[k][2]]
                        ELSE df[k]]
             kept == IF bad = {} THEN norm ELSE drop(norm, bad, 1)
         IN  /\ invalid_rows' = bad
             /\ df' = kept
             /\ loaded' = drop(df, bad, 1)
             /\ \/ /\ bad = {}
                   /\ UNCHANGED <<sheet, exc, write_failed>>
                   /\ wrote' = FALSE
                   /\ pc' = "loop"
                \/ /\ bad # {}
                   /\ sheet' = write_dataframe_to_sheet(sheet, kept)
                   /\ wrote' = TRUE
                   /\ UNCHANGED <<exc, write_failed>>
                   /\ pc' = "loop"
                \/ /\ bad # {}
                   /\ exc' = "HttpError"
                   /\ write_failed' = TRUE
                   /\ wrote' = FALSE
                   /\ sheet' = sheet
                   /\ pc' = "raised"
    /\ idx' = 1
    /\ processed_keys' = {}
    /\ LET ids == drop(hist.df_ids, invalid_rows', 1)
       IN  hist' = [hist EXCEPT !.df_ids = ids,
                                !.sheet_ids = IF wrote' THEN written_ids(@, ids)
                                              ELSE @]
    /\ UNCHANGED <<fs, smtp_conf, max_retries, attempt, sent, events, ev_row,
                   touched, call, ret>>

\* lines 524-530 and 541: the fields read from row idx
row_job == strip(str(df[idx].JobRole))
row_company == strip(str(df[idx].CompanyName))
row_email == strip(str(df[idx].Email))
row_status == strip(str(df[idx].Status))
\* the key without case folding
row_key_as_typed == <<row_email, row_job, row_company>>
row_key == <<lower(row_email), lower(row_job), lower(row_company)>>

\* lines 534-539: the Status gate
\* the gate with its first test only
gate_skips_sent_only(status) == upper(status) = S_SENT

gate_skips(status) ==
    \/ upper(status) = S_SENT
    \/ status # EmptyStr /\ upper(status) \notin {EmptyStr, S_PENDING, S_TO_SEND}

InLoop == pc = "loop" /\ idx <= Len(df)

\* lines 534-539: a row that is not eligible is passed over
SkipRow ==
    /\ InLoop
    /\ gate_skips(row_status)
    /\ idx' = idx + 1
    /\ wrote' = FALSE
    /\ UNCHANGED <<sheet, fs, smtp_conf, max_retries, pc, exc, df, invalid_rows,
                   processed_keys, attempt, sent, loop_obs, write_failed,
                   call, ret, hist>>

\* lines 541-545: a key seen earlier in this run
MarkDuplicate ==
    /\ InLoop
    /\ ~gate_skips(row_status)
    /\ row_key \in processed_keys
    /\ df' = [df EXCEPT ![idx].Status = S_SKIPPED_DUPLICATE]
    /\ idx' = idx + 1
    /\ wrote' = FALSE
    /\ UNCHANGED <<sheet, fs, smtp_conf, max_retries, pc, exc, invalid_rows,
                   processed_keys, attempt, sent, loop_obs, write_failed,
                   call, ret, hist>>

Fresh == InLoop /\ ~gate_skips(row_status) /\ row_key \notin processed_keys

row_resume == select_resume(row_job, resumes_folder, default_resume, fs)

\* a status set on row idx and written back outside any try block (lines
\* 549-554 and 574-577): a failed write leaves the run
MarkAndWrite(status) ==
    /\ df' = [df EXCEPT ![idx].Status = status]
    /\ touched' = touched \cup {idx}
    /\ \/ /\ sheet' = write_dataframe_to_sheet(sheet, df')
          /\ wrote' = TRUE
          /\ processed_keys' = processed_keys \cup {row_key}
          /\ idx' = idx + 1
          /\ UNCHANGED <<pc, exc, write_failed>>
       \/ /\ exc' = "HttpError"
          /\ pc' = "raised"
          /\ write_failed' = TRUE
          /\ wrote' = FALSE
          /\ UNCHANGED <<sheet, processed_keys, idx>>
    /\ hist' = [hist EXCEPT !.sheet_ids = IF wrote' THEN written_ids(@, hist.df_ids)
                                          ELSE @]
    /\ UNCHANGED <<fs, smtp_conf, max_retries, invalid_rows, attempt, sent,
                   loaded, events, ev_row, call, ret>>

\* lines 547-554: no resume for the row's job role
NoResume ==
    /\ Fresh
    /\ row_resume \in {None, EmptyStr}
    /\ MarkAndWrite(S_SKIPPED_NO_RESUME)

\* lines 556-577: build_email_message raises (template or attachment unreadable)
BuildFailed ==
    /\ Fresh
    /\ row_resume \notin {None, EmptyStr}
    /\ MarkAndWrite(S_FAILED_BUILD_MESSAGE)

\* lines 556-582: the message is built and the send loop is entered
BuildOk ==
    /\ Fresh
    /\ row_resume \notin {None, EmptyStr}
    /\ touched' = touched \cup {idx}
    /\ attempt' = 0
    /\ sent' = FALSE
    /\ events' = <<>>
    /\ ev_row' = idx
    /\ pc' = "send"
    /\ wrote' = FALSE
    /\ UNCHANGED <<sheet, fs, smtp_conf, max_retries, exc, df, invalid_rows, idx,
                   processed_keys, loaded, write_failed, call, ret, hist>>

\* line 583: the condition of the send loop
\* the loop condition without the sent flag, and with one attempt too many
loop_continues_ignoring_sent == attempt < max_retries
loop_continues_one_more == attempt <= max_retries /\ ~sent

loop_continues == attempt < max_retries /\ ~sent

\* lines 583-595: one pass of the send loop
SendAttempt ==
    /\ pc = "send"
    /\ loop_continues
    /\ attempt' = attempt + 1
    /\ \E transport \in Transports :
         LET raised == send_email(smtp_conf, transport)
         IN  IF raised = ""
             THEN /\ sent' = TRUE
                  /\ events' = Append(events, "sent")
             ELSE /\ sent' = sent
                  /\ events' = IF attempt' < max_retries
                               THEN events \o <<"failed", "sleep">>
                               ELSE Append(events, "failed")
    /\ wrote' = FALSE
    /\ hist' = IF sent' THEN [hist EXCEPT !.delivered[hist.df_ids[idx]] = @ + 1]
               ELSE hist
    /\ UNCHANGED <<sheet, fs, smtp_conf, max_retries, pc, exc, df, invalid_rows,
                   idx, processed_keys, loaded, ev_row, touched, write_failed,
                   call, ret>>

\* lines 597-609: record the outcome, write back inside try/except, remember
\* the key
FinishRow ==
    /\ pc = "send"
    /\ ~loop_continues
    /\ df' = [df EXCEPT ![idx].Status = IF sent THEN S_SENT ELSE S_FAILED]
    /\ \/ /\ sheet' = write_dataframe_to_sheet(sheet, df')
          /\ wrote' = TRUE
          /\ write_failed' = write_failed
       \/ /\ sheet' = sheet
          /\ wrote' = FALSE
          /\ write_failed' = TRUE
    /\ processed_keys' = processed_keys \cup {row_key}
    /\ idx' = idx + 1
    /\ pc' = "loop"
    /\ hist' = [hist EXCEPT !.sheet_ids = IF wrote' THEN written_ids(@, hist.df_ids)
                                          ELSE @]
    /\ UNCHANGED <<fs, smtp_conf, max_retries, exc, invalid_rows, attempt, sent,
                   loop_obs, call, ret>>

\* line 611: the loop is over
Complete ==
    /\ pc = "loop"
    /\ idx > Len(df)
    /\ pc' = "done"
    /\ wrote' = FALSE
    /\ UNCHANGED <<sheet, fs, smtp_conf, max_retries, exc, df, invalid_rows, idx,
                   processed_keys, attempt, sent, loop_obs, write_failed,
                   call, ret, hist>>

Next ==
    \/ ReadSheet
    \/ ValidateRows
    \/ SkipRow
    \/ MarkDuplicate
    \/ NoResume
    \/ BuildFailed
    \/ BuildOk
    \/ SendAttempt
    \/ FinishRow
    \/ Complete

Spec == Init /\ [][Next]_vars

\* lines 613-618: the program is started again on the sheet the finished run
\* left behind
StartNextRun ==
    /\ pc = "done"
    /\ hist.run < MaxRuns
    /\ hist' = [hist EXCEPT !.run = @ + 1, !.df_ids = <<>>]
    /\ pc' = "read"
    /\ df' = <<>>
    /\ invalid_rows' = {}
    /\ idx' = 1
    /\ processed_keys' = {}
    /\ attempt' = 0
    /\ sent' = FALSE
    /\ loaded' = <<>>
    /\ events' = <<>>
    /\ ev_row' = 0
    /\ touched' = {}
    /\ wrote' = FALSE
    /\ write_failed' = FALSE
    /\ UNCHANGED <<sheet, fs, smtp_conf, max_retries, exc, call, ret>>

NextRuns ==
    \/ Next
    \/ StartNextRun

SpecRuns == Init /\ [][NextRuns]_vars

\* the run is one sequential thread: a step that can be taken is taken
FairSpec == Spec /\ WF_vars(Next)

---------------------------------------------------------------------------
(* Properties *)

\* number of entries of seq equal to x
Count(seq, x) == Cardinality({k \in 1..Len(seq) : seq[k] = x})

\* the main loop has the Table (df and loaded name the same rows)
Looping == pc \in {"loop", "send", "done"} \/ (pc = "raised" /\ loaded # <<>>)

\* Status of row k as read is the empty string, PENDING or TO_SEND, compared
\* trimmed and case-insensitively (a missing cell, None, is not a string)
EligibleOnLoad(k) ==
    /\ loaded[k].Status # None
    /\ upper(strip(loaded[k].Status)) \in {EmptyStr, S_PENDING, S_TO_SEND}

\* (email, job role, company) of a row as read, trimmed and lower-cased
TrimmedLowered(r) ==
    <<lower(strip(r.Email)), lower(strip(r.JobRole)), lower(strip(r.CompanyName))>>

\* row j is eligible and repeats the key of an earlier eligible row
LaterDuplicate(j) ==
    /\ EligibleOnLoad(j)
    /\ \E i \in 1..(j - 1) :
          EligibleOnLoad(i) /\ TrimmedLowered(loaded[i]) = TrimmedLowered(loaded[j])

IneligibleOnLoad(k) ==
    /\ loaded[k].Status # None
    /\ strip(loaded[k].Status) # EmptyStr
    /\ upper(strip(loaded[k].Status)) \notin {S_PENDING, S_TO_SEND}

FailedThen(k, tail) ==
    /\ Len(events) = 2 * k + Len(tail)
    /\ \A m \in 1..k : events[2 * m - 1] = "failed" /\ events[2 * m] = "sleep"
    /\ \A m \in 1..Len(tail) : events[2 * k + m] = tail[m]

\* C3: a send loop that succeeds after k failed attempts, k < max_retries, made
\* exactly k+1 attempts and k sleeps, one sleep after each failed attempt, and
\* nothing after the successful attempt; the row's Status becomes SENT.
C3_RetryThenSent ==
    (ev_row # 0 /\ sent) =>
        LET k == Count(events, "failed")
        IN  /\ k < max_retries
            /\ attempt = k + 1
            /\ Count(events, "sleep") = k
            /\ FailedThen(k, <<"sent">>)
            /\ (idx > ev_row => df[ev_row].Status = S_SENT)

\* max_retries = 3, two failures, then success
C3_Witness ==
    /\ pc = "done"
    /\ max_retries = 3
    /\ sent
    /\ events = <<"failed", "sleep", "failed", "sleep", "sent">>
    /\ df[ev_row].Status = S_SENT

\* the send loop of row ev_row is over and no attempt succeeded
LoopExhausted == ev_row # 0 /\ ~sent /\ ~(pc = "send" /\ attempt < max_retries)

\* C4: with max_retries = N >= 1 and every attempt failing, exactly N attempts
\* are made (N-1 sleeps), the row's Status becomes FAILED and the loop moves to
\* the next row.  The send loop cannot block: in it a step is always possible,
\* each step either makes one more attempt, counted by attempt <= N, or leaves
\* the loop for the next row.
C4_RetriesExhausted ==
    /\ [](pc = "send" => attempt <= max_retries /\ ENABLED (SendAttempt \/ FinishRow))
    /\ []((LoopExhausted /\ max_retries >= 1) =>
            /\ Count(events, "failed") = max_retries
            /\ attempt = max_retries
            /\ FailedThen(max_retries - 1, <<"failed">>)
            /\ (idx > ev_row => df[ev_row].Status = S_FAILED))
    /\ [][pc = "send" =>
            \/ pc' = "send" /\ attempt' = attempt + 1 /\ idx' = idx
            \/ /\ pc' = "loop" /\ idx' = idx + 1
               /\ df'[idx].Status = IF sent THEN S_SENT ELSE S_FAILED]_vars

\* max_retries = 2, both attempts of row 1 fail, row 2 is still processed
C4_Witness ==
    /\ pc = "done"
    /\ max_retries = 2
    /\ smtp_conf = GoodConf
    /\ ev_row = 1
    /\ events = <<"failed", "sleep", "failed">>
    /\ df[1].Status = S_FAILED
    /\ Len(df) = 2
    /\ df[2].Status = S_SKIPPED_DUPLICATE

\* C5: validate_email_address returns (valid, normalized address) for every
\* syntactically valid address whatever the deliverability check does, and
\* (invalid, None) otherwise.
C5_SyntaxValidAccepted ==
    pc = "v_done" =>
        ret = IF SyntaxValid(call.address)
              THEN <<TRUE, NormalizedEmail(call.address)>>
              ELSE <<FALSE, None>>

\* C6: an empty SMTP username or password ends the run at the first attempt:
\* no further attempt, no sleep, the error leaves the run.
C6_ConfigErrorFatal ==
    (ev_row # 0 /\ events # <<>> /\ (smtp_conf.username = "" \/ smtp_conf.password = ""))
        => (pc = "raised" /\ exc = "RuntimeError")

\* the claim's file name: extension stripped, underscores replaced by spaces,
\* lower-cased
C7_ClaimName(fname) == lower(replace(splitext(fname), "_", " "))

\* the regular files of the listing whose name satisfies match(key, name)
C7_Hits(key, match(_, _)) ==
    {k \in 1..Len(fs.listing) :
        fs.listing[k].isfile /\ match(key, fs.listing[k].name)}

\* the four-step resolution order, with the given test for step 2; first says
\* whether step 2 must return the first hit of the listing
C7_Resolution(match(_, _), first) ==
    LET key == lower(strip(call.job_role))
        hits == C7_Hits(key, match)
    IN  IF key \in DOMAIN RESUME_MAP /\ isfile(fs, RESUME_MAP[key])
        THEN ret = RESUME_MAP[key]
        ELSE IF hits # {}
        THEN \E k \in hits :
                /\ ret = path_join(resumes_folder, fs.listing[k].name)
                /\ first => \A m \in hits : k <= m
        ELSE IF call.default \notin {None, EmptyStr} /\ isfile(fs, call.default)
        THEN ret = call.default
        ELSE ret = None

C7_ClaimMatch(key, fname) == C7_ClaimName(fname) = key

\* C7 as stated: step 2 returns a file whose name, extension stripped,
\* underscores replaced by spaces and lower-cased, equals the normalized role.
C7_ResolutionOrderAsStated ==
    pc = "r_done" => C7_Resolution(C7_ClaimMatch, FALSE)

\* s with underscores turned into blanks, leading and trailing blanks removed
\* and every run of blanks reduced to one blank
C7_Squeezed(s) ==
    LET t == replace(s, "_", " ")
        keep == {k \in 1..Len(t) :
                    \/ t[k] # " "
                    \/ /\ k > 1 /\ t[k - 1] # " "
                       /\ \E b \in (k + 1)..Len(t) : t[b] # " "}
        nth(m) == CHOOSE k \in keep : Cardinality({j \in keep : j <= k}) = m
    IN  [m \in 1..Cardinality(keep) |-> t[nth(m)]]

C7_AmendedMatch(key, fname) ==
    LET stem == lower(splitext(fname))
    IN  key = stem \/ key = C7_Squeezed(stem)

\* C7 (amended): step 2 returns the first regular file of the directory listing
\* whose lower-cased name without extension equals the normalized role either
\* as it stands or after its underscores are replaced by spaces, its runs of
\* blanks reduced to one and its leading and trailing blanks removed.  Steps 1,
\* 3 and 4 and their order are as stated.
C7_ResolutionOrder ==
    pc = "r_done" => C7_Resolution(C7_AmendedMatch, TRUE)

\* the mapped file of "backend developer" is missing and the scan finds
\* Backend_Developer.docx
C7_Witness ==
    /\ pc = "r_done"
    /\ call.job_role = Role_backend
    /\ ~isfile(fs, RESUME_MAP[K_backend])
    /\ Len(fs.listing) = 2
    /\ ret = path_join(resumes_folder, File_backend2)

\* C8: after a successful write the sheet holds exactly the Table's rows.
C8_SheetEqualsTable ==
    wrote =>
        /\ sheet.hasStatus
        /\ sheet.rows = [k \in 1..Len(df) |-> fillna(df[k])]

\* C9: a failed write-back never ends the run.
C9_WriteFailureNeverStopsRun ==
    write_failed => pc # "raised"

\* C10: with no write failed, whenever the loop is between rows or the run is
\* over, the sheet holds the Status of every row this run has given one.
C10_StatusPersistedAfterEveryRow ==
    (~write_failed /\ pc \in {"loop", "done"}) =>
        \A k \in 1..Len(loaded) :
            (k < idx /\ df[k].Status # loaded[k].Status) =>
                /\ k <= Len(sheet.rows)
                /\ sheet.rows[k].Status = df[k].Status

\* the five Status values a row taken up by the loop can end in
FinalStatuses ==
    {S_SENT, S_FAILED, S_SKIPPED_DUPLICATE, S_SKIPPED_NO_RESUME,
     S_FAILED_BUILD_MESSAGE}

\* the Status the row had on load is empty (a cell read as None included),
\* PENDING or TO_SEND
OpenOnLoad(k) ==
    \/ loaded[k].Status = None
    \/ upper(strip(loaded[k].Status)) \in {EmptyStr, S_PENDING, S_TO_SEND}

\* C11: when the run completes normally every row of the Table has a
\* non-empty final Status: none is left empty, PENDING or TO_SEND, each row
\* that was open on load has ended in one of the five final values, and it is
\* SENT only if a message for it was delivered.
C11_EveryRowHasFinalStatus ==
    (pc = "done" /\ Len(loaded) = Len(df)) =>
        \A k \in 1..Len(df) :
            /\ df[k].Status # None
            /\ upper(strip(df[k].Status)) \notin {EmptyStr, S_PENDING, S_TO_SEND}
            /\ OpenOnLoad(k) =>
                   /\ df[k].Status \in FinalStatuses
                   /\ (df[k].Status = S_SENT => hist.delivered[hist.df_ids[k]] >= 1)

\* C12: over consecutive runs that each load the sheet, with nothing else
\* editing it in between, no row is successfully sent more than once, also
\* when a write-back of the earlier run failed and was only logged.
C12_NoRowSentTwice ==
    \A i \in DOMAIN hist.delivered : hist.delivered[i] <= 1

====
